---- MODULE Spec2Model ----
(***************************************************************************)
(* JobShield: rule-based risk scoring of messages, links and emails.       *)
(* The model follows src/api/services.py (the three analyze_* functions    *)
(* and their helpers), src/Jobshield_backend/api/serializers.py (request   *)
(* validation) and src/Jobshield_backend/api/views.py (the endpoints).     *)
(* Texts are TLA+ strings; Python's str and re operations are computed     *)
(* character by character.                                                 *)
(***************************************************************************)
EXTENDS Integers, Sequences, FiniteSets, TLC

(***************************************************************************)
(* Python string operations                                                *)
(***************************************************************************)

\* s[i-1] of Python, as a one-character string (positions count from 1)
CharAt(s, i) == SubSeq(s, i, i)

\* the upper-case letters, each with its lower-case letter
LowerTable ==
    [A |-> "a", B |-> "b", C |-> "c", D |-> "d", E |-> "e", F |-> "f", G |-> "g", H |-> "h", I |-> "i", J |-> "j", K |-> "k", L |-> "l",
     M |-> "m", N |-> "n", O |-> "o", P |-> "p", Q |-> "q", R |-> "r", S |-> "s", T |-> "t", U |-> "u", V |-> "v", W |-> "w", X |-> "x", Y |-> "y", Z |-> "z"]

UpperLetters == DOMAIN LowerTable

LowerLetters == {LowerTable[c] : c \in UpperLetters}

Digits == {"0", "1", "2", "3", "4", "5", "6", "7", "8", "9"}

\* str.lower() on one character
LowerChar(c) == IF c \in UpperLetters THEN LowerTable[c] ELSE c

RECURSIVE Lower(_)
\* str.lower(), computed by halves
Lower(s) ==
    IF Len(s) = 0 THEN ""
    ELSE IF Len(s) = 1 THEN LowerChar(s)
    ELSE Lower(SubSeq(s, 1, Len(s) \div 2)) \o Lower(SubSeq(s, Len(s) \div 2 + 1, Len(s)))

\* k occurs in t at position i
OccursAt(k, t, i) == i >= 1 /\ i + Len(k) - 1 <= Len(t) /\ SubSeq(t, i, i + Len(k) - 1) = k

\* Python's `k in t` on strings
Contains(k, t) == \E i \in 1..(Len(t) + 1) : OccursAt(k, t, i)

\* str.startswith
StartsWith(t, p) == OccursAt(p, t, 1)

\* str.isspace() on one character
IsSpace(c) == c = " "

RECURSIVE StripLeft(_)
StripLeft(s) ==
    IF Len(s) > 0 /\ IsSpace(CharAt(s, 1)) THEN StripLeft(SubSeq(s, 2, Len(s))) ELSE s

RECURSIVE StripRight(_)
StripRight(s) ==
    IF Len(s) > 0 /\ IsSpace(CharAt(s, Len(s))) THEN StripRight(SubSeq(s, 1, Len(s) - 1)) ELSE s

\* str.strip()
Strip(s) == StripRight(StripLeft(s))

RECURSIVE JoinFrom(_, _)
JoinFrom(parts, i) ==
    IF i > Len(parts) THEN ""
    ELSE IF i = Len(parts) THEN parts[i]
    ELSE parts[i] \o " " \o JoinFrom(parts, i + 1)

\* " ".join(parts)
Join(parts) == JoinFrom(parts, 1)

(***************************************************************************)
(* Python re: the three patterns the services use                          *)
(***************************************************************************)

\* \w of re on str (ASCII part)
IsWordChar(c) == c \in LowerLetters \/ c \in UpperLetters \/ c \in Digits \/ c = "_"

\* \b between positions i-1 and i of t (i in 1..Len(t)+1)
WordBoundary(t, i) ==
    LET before == i > 1 /\ IsWordChar(CharAt(t, i - 1))
        after  == i <= Len(t) /\ IsWordChar(CharAt(t, i))
    IN  before # after

\* re.search(r"\bw\b", t, re.IGNORECASE) for a lower-case literal word w
WordSearch(w, t) ==
    LET lowered == Lower(t)
    IN  \E i \in 1..Len(t) :
        /\ OccursAt(w, lowered, i)
        /\ WordBoundary(t, i)
        /\ WordBoundary(t, i + Len(w))

\* the word class, dot and hyphen: [\w\.-]
IsLocalPartChar(c) == IsWordChar(c) \/ c = "." \/ c = "-"

\* re.search(r"[\w\.-]+@(gmail|yahoo|outlook)\.com", t, re.IGNORECASE)
FreeEmailSearch(t) ==
    LET lowered == Lower(t)
    IN  \E i \in 2..Len(t) :
        /\ \E host \in {"@gmail.com", "@yahoo.com", "@outlook.com"} : OccursAt(host, lowered, i)
        /\ IsLocalPartChar(CharAt(t, i - 1))

OffPlatformRegex == "(?i)\\b(whatsapp|telegram)\\b"

FreeEmailRegex == "[\\w\\.-]+@(gmail|yahoo|outlook)\\.com"

ContactRegex == "(\\bcontact\\b|\\baddress\\b|\\bphone\\b)"

\* re.match in place of re.search: the pattern must match from the start of t
RegexMatchAtStart(regex, t) ==
    LET lowered == Lower(t)
        wordAtStart(w) == OccursAt(w, lowered, 1) /\ WordBoundary(t, 1 + Len(w))
    IN  CASE regex = OffPlatformRegex -> wordAtStart("whatsapp") \/ wordAtStart("telegram")
          [] regex = FreeEmailRegex   ->
                \E i \in 2..Len(t) :
                    /\ \E host \in {"@gmail.com", "@yahoo.com", "@outlook.com"} : OccursAt(host, lowered, i)
                    /\ \A j \in 1..(i - 1) : IsLocalPartChar(CharAt(t, j))
          [] regex = ContactRegex     -> wordAtStart("contact") \/ wordAtStart("address") \/ wordAtStart("phone")

\* re.search(regex, t, re.IGNORECASE) is not None
RegexSearch(regex, t) ==
    CASE regex = OffPlatformRegex -> WordSearch("whatsapp", t) \/ WordSearch("telegram", t)
      [] regex = FreeEmailRegex   -> FreeEmailSearch(t)
      [] regex = ContactRegex     -> WordSearch("contact", t) \/ WordSearch("address", t) \/ WordSearch("phone", t)

(***************************************************************************)
(* The rule catalogs                                                       *)
(***************************************************************************)

\* Python's None
None == "<None>"

SCAM_PATTERNS == <<
    [name |-> "Payment Request", weight |-> 50,
     keywords |-> <<"payment", "fee", "charge", "cost", "send money", "Ksh", "KES">>,
     regex |-> None,
     explanation |-> "Requests for payment are a major red flag. Legitimate employers do not ask for money.",
     advice |-> "Never send money for a job application or offer."],
    [name |-> "Urgency Manipulation", weight |-> 25,
     keywords |-> <<"urgent", "immediately", "now", "limited time", "act fast">>,
     regex |-> None,
     explanation |-> "Scammers create a sense of urgency to prevent you from thinking critically.",
     advice |-> "Take your time to evaluate any job offer. High-pressure tactics are suspicious."],
    [name |-> "Off-Platform Communication", weight |-> 30,
     keywords |-> <<"whatsapp", "telegram">>,
     regex |-> OffPlatformRegex,
     explanation |-> "Recruiters moving conversations to personal messaging apps may be trying to evade platform safety features.",
     advice |-> "Keep communication on official platforms (e.g., LinkedIn, company email)."],
    [name |-> "Free Email Recruiter", weight |-> 20,
     keywords |-> <<"@gmail.com", "@yahoo.com", "@outlook.com">>,
     regex |-> FreeEmailRegex,
     explanation |-> "Legitimate recruiters usually use corporate email addresses. Free email accounts can be a sign of a scam.",
     advice |-> "Verify the recruiter's email address and cross-reference it with the company's official domain."],
    [name |-> "Unrealistic Job Promises", weight |-> 35,
     keywords |-> <<"guaranteed income", "high salary", "no experience needed", "work from home">>,
     regex |-> None,
     explanation |-> "Offers that sound too good to be true often are. Be wary of promises of high income for little work.",
     advice |-> "Research typical salaries and requirements for the role you are applying for."] >>

WEBSITE_SCAM_PATTERNS == <<
    [name |-> "No HTTPS", weight |-> 20,
     explanation |-> "The website does not use HTTPS, which is a basic security measure. This can be a sign of a fraudulent website.",
     advice |-> "Avoid entering personal information on unencrypted websites."],
    [name |-> "Newly Registered Domain", weight |-> 30,
     explanation |-> "The website's domain was registered very recently. Scammers often use new domains for short-lived fraudulent websites.",
     advice |-> "Be cautious with new websites, especially if they are asking for personal information or payment."],
    [name |-> "Payment Instructions in Text", weight |-> 40,
     keywords |-> <<"payment", "fee", "charge", "cost", "send money", "Ksh", "KES">>,
     explanation |-> "The website contains instructions for making a payment. Legitimate job sites do not ask for payment.",
     advice |-> "Do not make any payments for job applications or training."],
    [name |-> "No Contact Info", weight |-> 25,
     explanation |-> "The website does not provide clear contact information, such as an address or phone number.",
     advice |-> "Legitimate companies provide multiple ways to contact them. Lack of contact info is a red flag."],
    [name |-> "Unrealistic Promises", weight |-> 35,
     keywords |-> <<"guaranteed income", "high salary", "no experience needed", "work from home">>,
     explanation |-> "The website makes unrealistic promises about salary or job requirements.",
     advice |-> "If a job offer sounds too good to be true, it probably is."] >>

EMAIL_SCAM_PATTERNS == <<
    [name |-> "Free Email Domain", weight |-> 40,
     domains |-> <<"gmail.com", "yahoo.com", "outlook.com", "aol.com">>,
     explanation |-> "The email was sent from a free email domain, which is uncommon for legitimate companies.",
     advice |-> "Verify the sender's email address and cross-reference it with the company's official domain."],
    [name |-> "Payment Request", weight |-> 50,
     keywords |-> <<"payment", "fee", "charge", "cost", "send money", "Ksh", "KES">>,
     explanation |-> "The email requests payment, which is a major red flag for job scams.",
     advice |-> "Never send money for a job application or offer."],
    [name |-> "Urgency Manipulation", weight |-> 25,
     keywords |-> <<"urgent", "immediately", "now", "limited time", "act fast">>,
     explanation |-> "The email creates a sense of urgency to pressure you into making a quick decision.",
     advice |-> "Take your time to evaluate any job offer. High-pressure tactics are suspicious."],
    [name |-> "Poor Grammar / Unusual Formatting", weight |-> 15,
     explanation |-> "The email contains grammatical errors or has unusual formatting, which can be a sign of a scam.",
     advice |-> "Read emails carefully and be wary of unprofessional communication."] >>

\* the elements of a list
Range(list) == {list[i] : i \in 1..Len(list)}

(***************************************************************************)
(* Evidence collection and aggregation, shared by the three analyses       *)
(***************************************************************************)

\* risk_score = 0; detected_patterns = []; explanations = []; advices = []
NoEvidence == [risk_score |-> 0, detected_patterns |-> <<>>, explanations |-> <<>>, advices |-> <<>>]

\* risk_score += weight; the three appends
AddEvidence(acc, pattern) ==
    [risk_score        |-> acc.risk_score + pattern.weight,
     detected_patterns |-> Append(acc.detected_patterns, pattern.name),
     explanations      |-> Append(acc.explanations, pattern.explanation),
     advices           |-> Append(acc.advices, pattern.advice)]

\* the cap left out
CapScoreMissing(score) == score

\* min(risk_score, 100)
CapScore(score) == IF score < 100 THEN score ELSE 100

\* the upper edges compared with < in place of <=
RiskLevelStrictEdges(score) ==
    IF score < 30 THEN "LOW"
    ELSE IF score < 60 THEN "MEDIUM"
    ELSE "HIGH"

\* the if / elif / else on the capped score
RiskLevel(score) ==
    IF score <= 30 THEN "LOW"
    ELSE IF score <= 60 THEN "MEDIUM"
    ELSE "HIGH"

NoRiskExplanation == "No significant risk patterns were detected."

DefaultAdvice == "Always remain cautious and verify employer details."

\* the sentinel left out: the join of an empty list
ExplanationWithoutSentinel(explanations) == Join(explanations)

\* " ".join(explanations) if explanations else <sentinel>
ExplanationOf(explanations) == IF explanations # <<>> THEN Join(explanations) ELSE NoRiskExplanation

\* " ".join(advices) if advices else <sentinel>
AdviceOf(advices) == IF advices # <<>> THEN Join(advices) ELSE DefaultAdvice

\* the tail of each analyze_* function: cap, level, join, and the returned dict
\* (patterns is what the function puts under "detected_patterns")
BuildResult(acc, patterns) ==
    [risk_level        |-> RiskLevel(CapScore(acc.risk_score)),
     risk_score        |-> CapScore(acc.risk_score),
     detected_patterns |-> patterns,
     explanation       |-> ExplanationOf(acc.explanations),
     advice            |-> AdviceOf(acc.advices)]

\* for keyword in keywords: if keyword.lower() in text.lower(): found = True; break
KeywordFound(keywords, text) ==
    LET lowered == Lower(text)
    IN  \E j \in 1..Len(keywords) : Contains(Lower(keywords[j]), lowered)

(***************************************************************************)
(* analyze_message                                                         *)
(***************************************************************************)

\* the keyword test made for every pattern, next to the regex
MessagePatternFoundEither(pattern, message_text) ==
    \/ pattern.regex # None /\ RegexSearch(pattern.regex, message_text)
    \/ KeywordFound(pattern.keywords, message_text)

\* the decision `found` of one pattern of SCAM_PATTERNS
MessagePatternFound(pattern, message_text) ==
    IF pattern.regex # None
    THEN RegexSearch(pattern.regex, message_text)
    ELSE KeywordFound(pattern.keywords, message_text)

RECURSIVE MessageLoop(_, _, _)
\* for pattern in SCAM_PATTERNS, from the i-th on
MessageLoop(message_text, i, acc) ==
    IF i > Len(SCAM_PATTERNS) THEN acc
    ELSE MessageLoop(message_text, i + 1,
            IF MessagePatternFound(SCAM_PATTERNS[i], message_text)
            THEN AddEvidence(acc, SCAM_PATTERNS[i])
            ELSE acc)

analyze_message(message_text) ==
    LET acc == MessageLoop(message_text, 1, NoEvidence)
    IN  BuildResult(acc, acc.detected_patterns)

(***************************************************************************)
(* tldextract.extract, as far as the analyses use it                       *)
(***************************************************************************)

\* the part of s after the last sep (s itself when sep does not occur)
RECURSIVE AfterLast(_, _)
AfterLast(s, sep) ==
    IF \E i \in 1..Len(s) : OccursAt(sep, s, i)
    THEN AfterLast(SubSeq(s, (CHOOSE i \in 1..Len(s) : OccursAt(sep, s, i)) + Len(sep), Len(s)), sep)
    ELSE s

\* the part of s before the first sep (s itself when sep does not occur)
BeforeFirst(s, sep) ==
    IF \E i \in 1..Len(s) : OccursAt(sep, s, i)
    THEN SubSeq(s, 1, (CHOOSE i \in 1..Len(s) : OccursAt(sep, s, i) /\ \A j \in 1..(i - 1) : ~OccursAt(sep, s, j)) - 1)
    ELSE s

\* the part of s before the last sep ("" when sep does not occur)
BeforeLast(s, sep) ==
    IF \E i \in 1..Len(s) : OccursAt(sep, s, i)
    THEN SubSeq(s, 1, Len(s) - Len(AfterLast(s, sep)) - Len(sep))
    ELSE ""

\* the public suffixes the modelled hosts end in
PublicSuffixes == {"com", "me", "co.ke", "ke"}

\* host of an address or URL: scheme, path, userinfo and port removed
NetlocOf(s) ==
    LET noScheme == IF Contains("://", s) THEN SubSeq(s, Len(BeforeFirst(s, "://")) + 4, Len(s)) ELSE s
        noPath   == BeforeFirst(noScheme, "/")
        noUser   == AfterLast(noPath, "@")
    IN  BeforeFirst(noUser, ":")

\* tldextract.extract(s): the longest public suffix the host ends in, and the label before it
TldExtract(s) ==
    LET host == NetlocOf(s)
        last1 == AfterLast(host, ".")
        rest1 == BeforeLast(host, ".")
        last2 == AfterLast(rest1, ".") \o "." \o last1
        rest2 == BeforeLast(rest1, ".")
    IN  IF rest1 # "" /\ last2 \in PublicSuffixes
        THEN [domain |-> AfterLast(rest2, "."), suffix |-> last2]
        ELSE IF last1 \in PublicSuffixes
        THEN [domain |-> AfterLast(rest1, "."), suffix |-> last1]
        ELSE [domain |-> last1, suffix |-> ""]

(***************************************************************************)
(* analyze_email                                                           *)
(***************************************************************************)

RECURSIVE EmailDomainLoop(_, _, _)
\* 1. for pattern in EMAIL_SCAM_PATTERNS: if "domains" in pattern: if domain in pattern["domains"]
EmailDomainLoop(domain, i, acc) ==
    IF i > Len(EMAIL_SCAM_PATTERNS) THEN acc
    ELSE EmailDomainLoop(domain, i + 1,
            IF "domains" \in DOMAIN EMAIL_SCAM_PATTERNS[i] /\ domain \in Range(EMAIL_SCAM_PATTERNS[i].domains)
            THEN AddEvidence(acc, EMAIL_SCAM_PATTERNS[i])
            ELSE acc)

RECURSIVE EmailKeywordLoopNoBreak(_, _, _, _)
\* the break left out: every matching keyword adds the pattern again
EmailKeywordLoopNoBreak(pattern, lowered_text, j, acc) ==
    IF j > Len(pattern.keywords) THEN acc
    ELSE EmailKeywordLoopNoBreak(pattern, lowered_text, j + 1,
            IF Contains(Lower(pattern.keywords[j]), lowered_text)
            THEN AddEvidence(acc, pattern)
            ELSE acc)

RECURSIVE EmailKeywordLoop(_, _, _, _)
\* for keyword in pattern["keywords"], from the j-th on, with lowered_text the
\* value of email_text.lower(): the evidence is added inside the loop, which then breaks
EmailKeywordLoop(pattern, lowered_text, j, acc) ==
    IF j > Len(pattern.keywords) THEN acc
    ELSE IF Contains(Lower(pattern.keywords[j]), lowered_text)
    THEN AddEvidence(acc, pattern)
    ELSE EmailKeywordLoop(pattern, lowered_text, j + 1, acc)

RECURSIVE EmailContentLoop(_, _, _)
\* 2. for pattern in EMAIL_SCAM_PATTERNS: if "keywords" in pattern
EmailContentLoop(lowered_text, i, acc) ==
    IF i > Len(EMAIL_SCAM_PATTERNS) THEN acc
    ELSE EmailContentLoop(lowered_text, i + 1,
            IF "keywords" \in DOMAIN EMAIL_SCAM_PATTERNS[i]
            THEN EmailKeywordLoop(EMAIL_SCAM_PATTERNS[i], lowered_text, 1, acc)
            ELSE acc)

common_mistakes == <<"kindley", "ur", "pls">>

RECURSIVE EmailGrammarLoopNoBreak(_, _, _)
\* the break left out: every mistake found adds the pattern again
EmailGrammarLoopNoBreak(lowered_text, j, acc) ==
    IF j > Len(common_mistakes) THEN acc
    ELSE EmailGrammarLoopNoBreak(lowered_text, j + 1,
            IF Contains(common_mistakes[j], lowered_text)
            THEN AddEvidence(acc, EMAIL_SCAM_PATTERNS[4])
            ELSE acc)

RECURSIVE EmailGrammarLoop(_, _, _)
\* 3. for mistake in common_mistakes: if mistake in email_text.lower(): add EMAIL_SCAM_PATTERNS[3]; break
EmailGrammarLoop(lowered_text, j, acc) ==
    IF j > Len(common_mistakes) THEN acc
    ELSE IF Contains(common_mistakes[j], lowered_text)
    THEN AddEvidence(acc, EMAIL_SCAM_PATTERNS[4])
    ELSE EmailGrammarLoop(lowered_text, j + 1, acc)

\* the orders in which a Python process can iterate a set of the catalog's names:
\* str hashes are salted per process, so the order is fixed within a process and
\* differs between processes
HashOrders ==
    {o \in [1..Len(EMAIL_SCAM_PATTERNS) -> Range([i \in 1..Len(EMAIL_SCAM_PATTERNS) |-> EMAIL_SCAM_PATTERNS[i].name])] :
        \A i, j \in 1..Len(EMAIL_SCAM_PATTERNS) : i # j => o[i] # o[j]}

\* list(set(names)) in a process whose set iteration order is order
ListOfSet(names, order) == SelectSeq(order, LAMBDA n : n \in Range(names))

\* the grammar check made first, before the domain and keyword rules
analyze_emailGrammarFirst(email_text, sender_email, order) ==
    LET domain_info == TldExtract(sender_email)
        domain == domain_info.domain \o "." \o domain_info.suffix
        lowered_text == Lower(email_text)
        acc1 == EmailGrammarLoop(lowered_text, 1, NoEvidence)
        acc2 == EmailDomainLoop(domain, 1, acc1)
        acc3 == EmailContentLoop(lowered_text, 1, acc2)
    IN  BuildResult(acc3, ListOfSet(acc3.detected_patterns, order))

\* analyze_email after tldextract.extract has returned domain_info
analyze_email(email_text, sender_email, order) ==
    LET domain_info == TldExtract(sender_email)
        domain == domain_info.domain \o "." \o domain_info.suffix
        lowered_text == Lower(email_text)
        acc1 == EmailDomainLoop(domain, 1, NoEvidence)
        acc2 == EmailContentLoop(lowered_text, 1, acc1)
        acc3 == EmailGrammarLoop(lowered_text, 1, acc2)
    IN  BuildResult(acc3, ListOfSet(acc3.detected_patterns, order))

(***************************************************************************)
(* analyze_link, step by step                                              *)
(***************************************************************************)

\* 1. if not url.startswith("https://"): add WEBSITE_SCAM_PATTERNS[0]
HttpsCheck(url, acc) ==
    IF ~StartsWith(url, "https://") THEN AddEvidence(acc, WEBSITE_SCAM_PATTERNS[1]) ELSE acc

RECURSIVE VisibleTexts(_, _)
\* the stripped, non-empty text nodes outside script and style elements
VisibleTexts(html_content, i) ==
    IF i > Len(html_content) THEN <<>>
    ELSE IF html_content[i].tag \in {"script", "style"} \/ Strip(html_content[i].text) = ""
    THEN VisibleTexts(html_content, i + 1)
    ELSE <<Strip(html_content[i].text)>> \o VisibleTexts(html_content, i + 1)

\* soup.get_text(separator=" ", strip=True) after decomposing script and style;
\* a page is the sequence of its elements [tag, text]
_extract_text_from_html(html_content) == Join(VisibleTexts(html_content, 1))

\* BeautifulSoup(html_content, "html.parser") raises on markup the parser gives up
\* on (ParserRejectedMarkup, RecursionError on deep nesting): such a page holds
\* an element tagged "!rejected"
ParserRejects(html_content) == \E i \in 1..Len(html_content) : html_content[i].tag = "!rejected"

\* the fetch failure passed over like the domain failure: the analysis goes on with no text
FetchStepSwallowed(fetch_ok, html_content) ==
    IF fetch_ok /\ ParserRejects(html_content)
    THEN [raised |-> TRUE, text |-> ""]
    ELSE [raised |-> FALSE, text |-> IF fetch_ok THEN _extract_text_from_html(html_content) ELSE ""]

\* 2. the try block around _fetch_url_content and _extract_text_from_html:
\* a failed requests.get (timeout, refused connection, bad status) becomes a
\* ValueError, which analyze_link raises again; an exception of the parser is
\* not caught and leaves analyze_link as well
FetchStep(fetch_ok, html_content) ==
    IF fetch_ok /\ ~ParserRejects(html_content)
    THEN [raised |-> FALSE, text |-> _extract_text_from_html(html_content)]
    ELSE [raised |-> TRUE, text |-> ""]

\* the mock: a fixed value
_get_domain_age_in_days(domain) == 365

\* the except clause left out: the failure of the domain analysis is raised
DomainStepUncaught(url, acc, tld_ok) ==
    [raised |-> ~tld_ok, acc |-> acc]

\* 3. the try block around tldextract.extract and the domain age: any exception is passed over
DomainStep(url, acc, tld_ok) ==
    IF ~tld_ok
    THEN [raised |-> FALSE, acc |-> acc]
    ELSE LET domain_info == TldExtract(url)
             domain_age_days == _get_domain_age_in_days(domain_info.domain \o "." \o domain_info.suffix)
         IN  [raised |-> FALSE,
              acc |-> IF domain_age_days < 90 THEN AddEvidence(acc, WEBSITE_SCAM_PATTERNS[2]) ELSE acc]

RECURSIVE LinkContentLoop(_, _, _)
\* 4. for pattern in WEBSITE_SCAM_PATTERNS[2:], from the i-th of the whole list on
LinkContentLoop(text, i, acc) ==
    IF i > Len(WEBSITE_SCAM_PATTERNS) THEN acc
    ELSE LinkContentLoop(text, i + 1,
            IF "keywords" \in DOMAIN WEBSITE_SCAM_PATTERNS[i] /\ KeywordFound(WEBSITE_SCAM_PATTERNS[i].keywords, text)
            THEN AddEvidence(acc, WEBSITE_SCAM_PATTERNS[i])
            ELSE acc)

\* the contact information check left out
ContactCheckSkipped(text, acc) == acc

\* 5. if not re.search(contact|address|phone): add WEBSITE_SCAM_PATTERNS[3]
ContactCheck(text, acc) ==
    IF ~RegexSearch(ContactRegex, text) THEN AddEvidence(acc, WEBSITE_SCAM_PATTERNS[4]) ELSE acc

\* the contact information check made before the content rules
ContentStepContactFirst(text, acc) ==
    LET acc5 == ContactCheck(text, acc)
        acc4 == LinkContentLoop(text, 3, acc5)
    IN  BuildResult(acc4, acc4.detected_patterns)

\* steps 4 and 5 and the returned dict
ContentStep(text, acc) ==
    LET acc4 == LinkContentLoop(text, 3, acc)
        acc5 == ContactCheck(text, acc4)
    IN  BuildResult(acc5, acc5.detected_patterns)

(***************************************************************************)
(* Request validation: the serializers                                     *)
(***************************************************************************)

\* request data without any field
EmptyData == [f \in {} |-> ""]

\* serializers.CharField(): required, allow_blank=False, trim_whitespace=True
CharFieldError(data, f) ==
    IF f \notin DOMAIN data THEN "required"
    ELSE IF Strip(data[f]) = "" THEN "blank"
    ELSE "ok"

\* the validated value of a CharField
CharFieldValue(data, f) == Strip(data[f])

\* a host name: no blank, not empty, "localhost" or dotted with non-empty first and last label
IsHostName(h) ==
    /\ h # ""
    /\ ~Contains(" ", h)
    /\ \/ h = "localhost"
       \/ Contains(".", h) /\ BeforeFirst(h, ".") # "" /\ AfterLast(h, ".") # ""

\* URLValidator: a scheme among http, https, ftp, ftps (compared lower-cased), "://", a host
IsValidUrl(value) ==
    /\ Contains("://", value)
    /\ Lower(BeforeFirst(value, "://")) \in {"http", "https", "ftp", "ftps"}
    /\ IsHostName(NetlocOf(value))

\* EmailValidator: one "@", a local part without blanks, a dotted domain
IsValidEmail(value) ==
    /\ Contains("@", value)
    /\ BeforeFirst(value, "@") # ""
    /\ ~Contains(" ", value)
    /\ ~Contains("@", AfterLast(value, "@")) /\ BeforeLast(value, "@") = BeforeFirst(value, "@")
    /\ AfterLast(value, "@") # "localhost"
    /\ IsHostName(AfterLast(value, "@"))

\* serializers.URLField()
UrlFieldError(data, f) ==
    IF CharFieldError(data, f) # "ok" THEN CharFieldError(data, f)
    ELSE IF ~IsValidUrl(CharFieldValue(data, f)) THEN "invalid"
    ELSE "ok"

\* serializers.EmailField()
EmailFieldError(data, f) ==
    IF CharFieldError(data, f) # "ok" THEN CharFieldError(data, f)
    ELSE IF ~IsValidEmail(CharFieldValue(data, f)) THEN "invalid"
    ELSE "ok"

\* MessageAnalysisRequestSerializer(data).errors
MessageErrors(data) == [f \in {"message_text"} |-> CharFieldError(data, f)]

\* LinkAnalysisRequestSerializer(data).errors
LinkErrors(data) == [f \in {"url"} |-> UrlFieldError(data, f)]

\* EmailAnalysisRequestSerializer(data).errors
EmailErrors(data) ==
    [f \in {"email_text", "sender_email"} |->
        IF f = "email_text" THEN CharFieldError(data, f) ELSE EmailFieldError(data, f)]

\* request_serializer.is_valid()
IsValid(errors) == \A f \in DOMAIN errors : errors[f] = "ok"

\* the response serializers: the five fields of the result
ResponseData(result) ==
    [f \in {"risk_level", "risk_score", "detected_patterns", "explanation", "advice"} |-> result[f]]

HTTP_200_OK == 200

HTTP_400_BAD_REQUEST == 400

HTTP_422_UNPROCESSABLE_ENTITY == 422

HTTP_503_SERVICE_UNAVAILABLE == 503

(***************************************************************************)
(* Inputs and collaborator responses                                       *)
(***************************************************************************)

MessageTexts ==
    {"", "   ",
     "Pay KES 1000 now via WhatsApp",
     "Software Engineer role at TechCorp",
     "Contact us on whatsapp",
     "Start immediately, work from home",
     "Mail hiring.manager@gmail.com",
     "join our whatsappgroup @gmail.com",
     "URGENT: send money",
     "Pay fee, high salary, act fast on Telegram, hr@yahoo.com"}

Urls == {"", "not-a-url", "http://example.com", "https://example.com", "HTTPS://example.com", "http://localhost:9999"}

\* pages the fetch can return
Pages ==
    {<<>>,
     <<[tag |-> "h1", text |-> "Example Domain"], [tag |-> "p", text |-> " More information "]>>,
     <<[tag |-> "p", text |-> "Contact us: phone 123"], [tag |-> "script", text |-> "var fee = 1"]>>,
     <<[tag |-> "p", text |-> "Pay the registration fee"], [tag |-> "p", text |-> "Our address"]>>,
     <<[tag |-> "p", text |-> "Pay fee. High salary!"], [tag |-> "style", text |-> "p { }"]>>,
     <<[tag |-> "p", text |-> "All contacts and addresses, work from home"]>>,
     <<[tag |-> "p", text |-> "Apply"], [tag |-> "!rejected", text |-> ""]>>}

EmailTexts ==
    {"", 
     "Congratulations on your application. Please schedule an interview at your convenience using the link below.",
     "please pay KES 1500",
     "Thank you. We will get back to you.",
     "URGENT!!! Pay fee NOW pls",
     "kindley reply pls",
     "Kindley send UR cv",
     "act fast, limited time"}

Senders == {"", "not-an-email", "hr@techcorp.com", "hr@gmail.com", "jobs@mail.yahoo.com", "x@gov.barotors.me"}

MessageData == {EmptyData} \cup {[message_text |-> t] : t \in MessageTexts}

LinkData == {EmptyData} \cup {[url |-> u] : u \in Urls}

EmailData ==
    {EmptyData} \cup {[email_text |-> t] : t \in EmailTexts} \cup {[sender_email |-> s] : s \in Senders}
        \cup {[email_text |-> t, sender_email |-> s] : t \in EmailTexts, s \in Senders}

(***************************************************************************)
(* State                                                                   *)
(***************************************************************************)

VARIABLES
    hash_order, \* the running process's set iteration order (its str hash salt)
    pc,         \* position of the analyze_link call in flight: idle, fetch, domain, content
    request,    \* the input of the analyze_link call in flight
    via,        \* how the call in flight was made: "view" (the endpoint) or "call" (the function)
    url,        \* analyze_link's argument
    acc,        \* analyze_link's risk_score, detected_patterns, explanations, advices
    text,       \* analyze_link's extracted text
    env,        \* what the collaborators answered to the call in flight
    steps,      \* the steps of the services the request has run so far
    last,       \* the last finished request: input, collaborator answers, outcome
    catalogs,   \* the three module-level rule lists of the process
    frames,     \* the locals of the analyze_link calls running side by side, one frame each
    calls       \* the calls running side by side: position, arguments, answers, outcome

vars == <<hash_order, pc, request, via, url, acc, text, env, steps, last, catalogs, frames, calls>>

NoEnv == [fetch |-> "none", html |-> <<>>, tld |-> "none"]

NoLast ==
    [op |-> "none", via |-> "none", input |-> EmptyData, env |-> NoEnv, steps |-> <<>>,
     outcome |-> "none", returned |-> <<>>, response |-> <<>>]

\* no analyze_link call in flight
IdleLocals ==
    /\ pc' = "idle"
    /\ request' = EmptyData
    /\ via' = "none"
    /\ url' = ""
    /\ acc' = NoEvidence
    /\ text' = ""
    /\ env' = NoEnv
    /\ steps' = <<>>

\* the module-level lists as the import of services.py leaves them
ImportedCatalogs ==
    [SCAM_PATTERNS |-> SCAM_PATTERNS,
     WEBSITE_SCAM_PATTERNS |-> WEBSITE_SCAM_PATTERNS,
     EMAIL_SCAM_PATTERNS |-> EMAIL_SCAM_PATTERNS]

\* the number of calls running side by side
NumCalls == 2

Calls == 1..NumCalls

\* the locals of an analyze_link call before its first statement
NoFrame == [acc |-> NoEvidence, text |-> ""]

\* a call that has not started
NoCall ==
    [pc |-> "idle", op |-> "none", input |-> EmptyData, env |-> NoEnv,
     outcome |-> "none", returned |-> <<>>]

Init ==
    /\ catalogs = ImportedCatalogs
    /\ frames = [c \in Calls |-> NoFrame]
    /\ calls = [c \in Calls |-> NoCall]
    /\ hash_order \in HashOrders
    /\ pc = "idle"
    /\ request = EmptyData
    /\ via = "none"
    /\ url = ""
    /\ acc = NoEvidence
    /\ text = ""
    /\ env = NoEnv
    /\ steps = <<>>
    /\ last = NoLast

\* Response(data, status)
Response(status, data) == [status |-> status, data |-> data]

\* a finished request whose input the serializer refused
Rejected(op, data, errors) ==
    [op |-> op, via |-> "view", input |-> data, env |-> NoEnv, steps |-> <<>>,
     outcome |-> "rejected", returned |-> <<>>,
     response |-> <<Response(HTTP_400_BAD_REQUEST, errors)>>]

\* a finished request whose analysis returned result
Returned(op, how, data, e, ran, result) ==
    [op |-> op, via |-> how, input |-> data, env |-> e, steps |-> ran,
     outcome |-> "returned", returned |-> <<result>>,
     response |-> IF how = "view" THEN <<Response(HTTP_200_OK, ResponseData(result))>> ELSE <<>>]

\* a finished request whose analysis raised: the view answers with errorStatus
Raised(op, how, data, e, ran, errorStatus) ==
    [op |-> op, via |-> how, input |-> data, env |-> e, steps |-> ran,
     outcome |-> "raised", returned |-> <<>>,
     response |-> IF how = "view" THEN <<Response(errorStatus, [error |-> "exception"])>> ELSE <<>>]

(***************************************************************************)
(* The endpoints and the service functions                                 *)
(***************************************************************************)

\* MessageAnalysisView.post, from the request data to the response
MessagePostOutcome(data) ==
    IF IsValid(MessageErrors(data))
    THEN Returned("message", "view", data, NoEnv, <<"analyze_message">>,
                  analyze_message(CharFieldValue(data, "message_text")))
    ELSE Rejected("message", data, MessageErrors(data))

\* analyze_message called as a function
MessageCallOutcome(message_text) ==
    Returned("message", "call", [message_text |-> message_text], NoEnv,
             <<"analyze_message">>, analyze_message(message_text))

\* analyze_email(email_text, sender_email) called by how in a process iterating sets
\* in order; tldextract.extract answers tld_ok, and its exception is not caught
EmailRun(how, data, email_text, sender_email, tld_ok, order) ==
    IF tld_ok
    THEN Returned("email", how, data, [NoEnv EXCEPT !.tld = "ok"], <<"analyze_email">>,
                  analyze_email(email_text, sender_email, order))
    ELSE Raised("email", how, data, [NoEnv EXCEPT !.tld = "fail"], <<"analyze_email">>,
                HTTP_422_UNPROCESSABLE_ENTITY)

\* EmailAnalysisView.post, from the request data to the response
EmailPostOutcome(data, tld_ok, order) ==
    IF IsValid(EmailErrors(data))
    THEN EmailRun("view", data, CharFieldValue(data, "email_text"),
                  CharFieldValue(data, "sender_email"), tld_ok, order)
    ELSE Rejected("email", data, EmailErrors(data))

\* analyze_email called as a function
EmailCallOutcome(email_text, sender_email, tld_ok, order) ==
    EmailRun("call", [email_text |-> email_text, sender_email |-> sender_email],
             email_text, sender_email, tld_ok, order)

\* `last` observes one call at a time: a request is taken up when nothing is
\* observed, or when it repeats the observed call (same operation, same caller,
\* same input, and for analyze_link the same answer of the fetch)
Observable(op, how, data) ==
    \/ last.op = "none"
    \/ last.op = op /\ last.via = how /\ last.input = data

MessagePost(data) ==
    /\ pc = "idle"
    /\ Observable("message", "view", data)
    /\ last' = MessagePostOutcome(data)
    /\ UNCHANGED <<catalogs, frames, calls, hash_order, pc, request, via, url, acc, text, env, steps>>

MessageCall(message_text) ==
    /\ pc = "idle"
    /\ Observable("message", "call", [message_text |-> message_text])
    /\ last' = MessageCallOutcome(message_text)
    /\ UNCHANGED <<catalogs, frames, calls, hash_order, pc, request, via, url, acc, text, env, steps>>

EmailPost(data, tld_ok) ==
    /\ pc = "idle"
    /\ Observable("email", "view", data)
    /\ last' = EmailPostOutcome(data, tld_ok, hash_order)
    /\ UNCHANGED <<catalogs, frames, calls, hash_order, pc, request, via, url, acc, text, env, steps>>

EmailCall(email_text, sender_email, tld_ok) ==
    /\ pc = "idle"
    /\ Observable("email", "call", [email_text |-> email_text, sender_email |-> sender_email])
    /\ last' = EmailCallOutcome(email_text, sender_email, tld_ok, hash_order)
    /\ UNCHANGED <<catalogs, frames, calls, hash_order, pc, request, via, url, acc, text, env, steps>>

\* analyze_link entered by how with argument u: step 1, then the fetch is awaited
LinkEnter(how, data, u) ==
    /\ pc' = "fetch"
    /\ request' = data
    /\ via' = how
    /\ url' = u
    /\ acc' = HttpsCheck(u, NoEvidence)
    /\ text' = ""
    /\ env' = NoEnv
    /\ steps' = <<"https">>

\* LinkAnalysisView.post, up to the fetch
LinkPost(data) ==
    /\ pc = "idle"
    /\ Observable("link", "view", data)
    /\ IF IsValid(LinkErrors(data))
       THEN /\ LinkEnter("view", data, CharFieldValue(data, "url"))
            /\ UNCHANGED last
       ELSE /\ last' = Rejected("link", data, LinkErrors(data))
            /\ UNCHANGED <<pc, request, via, url, acc, text, env, steps>>
    /\ UNCHANGED <<catalogs, frames, calls, hash_order>>

\* analyze_link called as a function, up to the fetch
LinkCall(u) ==
    /\ pc = "idle"
    /\ Observable("link", "call", [url |-> u])
    /\ LinkEnter("call", [url |-> u], u)
    /\ UNCHANGED last
    /\ UNCHANGED <<catalogs, frames, calls, hash_order>>

\* 2. the fetch answers: a page, or a failure; the exception leaves analyze_link,
\* and LinkAnalysisView.post answers it with 503
LinkFetch(fetch_ok, html_content) ==
    /\ pc = "fetch"
    /\ last.op = "none" \/ (last.env.fetch = (IF fetch_ok THEN "ok" ELSE "fail") /\ last.env.html = html_content)
    /\ LET got == FetchStep(fetch_ok, html_content)
           e   == [env EXCEPT !.fetch = IF fetch_ok THEN "ok" ELSE "fail", !.html = html_content]
           ran == Append(steps, "fetch")
       IN  IF got.raised
           THEN /\ last' = Raised("link", via, request, e, ran, HTTP_503_SERVICE_UNAVAILABLE)
                /\ IdleLocals
           ELSE /\ pc' = "domain"
                /\ text' = got.text
                /\ env' = e
                /\ steps' = ran
                /\ UNCHANGED <<request, via, url, acc, last>>
    /\ UNCHANGED <<catalogs, frames, calls, hash_order>>

\* 3. the domain analysis: tldextract.extract answers tld_ok
LinkDomain(tld_ok) ==
    /\ pc = "domain"
    /\ LET got == DomainStep(url, acc, tld_ok)
           e   == [env EXCEPT !.tld = IF tld_ok THEN "ok" ELSE "fail"]
           ran == Append(steps, "domain")
       IN  IF got.raised
           THEN /\ last' = Raised("link", via, request, e, ran, HTTP_503_SERVICE_UNAVAILABLE)
                /\ IdleLocals
           ELSE /\ pc' = "content"
                /\ acc' = got.acc
                /\ env' = e
                /\ steps' = ran
                /\ UNCHANGED <<request, via, url, text, last>>
    /\ UNCHANGED <<catalogs, frames, calls, hash_order>>

\* 4, 5 and the return
LinkContent ==
    /\ pc = "content"
    /\ last' = Returned("link", via, request, env, steps \o <<"content", "contact">>,
                        ContentStep(text, acc))
    /\ IdleLocals
    /\ UNCHANGED <<catalogs, frames, calls, hash_order>>

\* the server process is started again between two requests: a new hash salt
Restart ==
    /\ pc = "idle"
    /\ hash_order' \in HashOrders
    /\ IdleLocals
    /\ UNCHANGED <<catalogs, frames, calls, last>>

\* the observed call is dropped: the next request taken up is observed afresh
Forget ==
    /\ pc = "idle"
    /\ last.op # "none"
    /\ last' = NoLast
    /\ UNCHANGED <<catalogs, frames, calls, hash_order, pc, request, via, url, acc, text, env, steps>>

Next ==
    \/ \E data \in MessageData : MessagePost(data)
    \/ \E t \in MessageTexts : MessageCall(t)
    \/ \E data \in EmailData, tld_ok \in BOOLEAN : EmailPost(data, tld_ok)
    \/ \E t \in EmailTexts, s \in Senders, tld_ok \in BOOLEAN : EmailCall(t, s, tld_ok)
    \/ \E data \in LinkData : LinkPost(data)
    \/ \E u \in Urls : LinkCall(u)
    \/ \E html_content \in Pages : LinkFetch(TRUE, html_content)
    \/ LinkFetch(FALSE, <<>>)
    \/ \E tld_ok \in BOOLEAN : LinkDomain(tld_ok)
    \/ LinkContent
    \/ Restart
    \/ Forget

Spec == Init /\ [][Next]_vars

(***************************************************************************)
(* Properties                                                              *)
(***************************************************************************)

\* the observed call returned an AnalysisResult
HasResult == last.outcome = "returned"

\* the AnalysisResult the observed call returned
Result == last.returned[1]

\* the catalog of the observed operation
CatalogOf(op) ==
    CASE op = "message" -> SCAM_PATTERNS
      [] op = "link"    -> WEBSITE_SCAM_PATTERNS
      [] op = "email"   -> EMAIL_SCAM_PATTERNS

RECURSIVE WeightSum(_, _, _)
\* the sum of the weights of the catalog's rules, from the i-th on, whose name is in names
WeightSum(catalog, names, i) ==
    IF i > Len(catalog) THEN 0
    ELSE (IF catalog[i].name \in names THEN catalog[i].weight ELSE 0) + WeightSum(catalog, names, i + 1)

\* the uncapped sum of the weights of the rules the observed result reports
MatchedWeight == WeightSum(CatalogOf(last.op), Range(Result.detected_patterns), 1)

\* C1: every returned risk_score is an integer in 0..100 and equals
\* min(100, sum of the weights of the matched rules), each matched rule being
\* reported and counted once
C1_ScoreIsCappedSum ==
    HasResult =>
        /\ Result.risk_score \in 0..100
        /\ Result.risk_score = (IF MatchedWeight < 100 THEN MatchedWeight ELSE 100)
        /\ Cardinality(Range(Result.detected_patterns)) = Len(Result.detected_patterns)

\* a link analysis whose matched weights sum to 120 and whose score is the cap
C1_Witness ==
    /\ HasResult
    /\ last.op = "link"
    /\ MatchedWeight = 120
    /\ Result.risk_score = 100

\* C2: risk_level is LOW exactly when risk_score <= 30, MEDIUM exactly when
\* 31 <= risk_score <= 60, HIGH exactly when risk_score >= 61
C2_LevelFromScore ==
    HasResult =>
        /\ Result.risk_level = "LOW" <=> Result.risk_score <= 30
        /\ Result.risk_level = "MEDIUM" <=> (31 <= Result.risk_score /\ Result.risk_score <= 60)
        /\ Result.risk_level = "HIGH" <=> Result.risk_score >= 61

\* a result on the upper edge of MEDIUM
C2_Witness == HasResult /\ Result.risk_score = 60 /\ Result.risk_level = "MEDIUM"

\* C3: detected_patterns is empty iff explanation and advice are the two
\* sentinels, and then the score is 0 and the level LOW; analyze_message on the
\* empty text returns exactly that
C3_EmptyIffSentinels ==
    HasResult =>
        /\ Result.detected_patterns = <<>>
              <=> (Result.explanation = "No significant risk patterns were detected."
                   /\ Result.advice = "Always remain cautious and verify employer details.")
        /\ Result.detected_patterns = <<>> => (Result.risk_score = 0 /\ Result.risk_level = "LOW")
        /\ (last.op = "message" /\ last.input.message_text = "")
              => (Result.detected_patterns = <<>> /\ Result.risk_score = 0)

\* analyze_message has returned for the empty text
C3_Witness ==
    /\ HasResult
    /\ last.op = "message"
    /\ last.input.message_text = ""
    /\ Result.explanation = "No significant risk patterns were detected."

\* C4: when the page fetch fails, analyze_link raises: nothing is returned, no
\* step after the fetch has run, and the endpoint answers 503 without a result
C4_FetchFailureIsFatal ==
    (last.op = "link" /\ last.env.fetch = "fail") =>
        /\ last.outcome = "raised"
        /\ last.returned = <<>>
        /\ last.steps = <<"https", "fetch">>
        /\ last.via = "view" =>
              /\ last.response[1].status = 503
              /\ "risk_score" \notin DOMAIN last.response[1].data

\* the endpoint was asked for an http URL (No HTTPS already collected) and the fetch failed
C4_Witness ==
    /\ last.op = "link"
    /\ last.via = "view"
    /\ last.env.fetch = "fail"
    /\ last.input.url = "http://localhost:9999"
    /\ last.outcome = "raised"

\* the input the claim C5 calls missing or malformed
MissingOrMalformed(op, data) ==
    CASE op = "message" -> "message_text" \notin DOMAIN data
      [] op = "link"    -> "url" \notin DOMAIN data \/ ~IsValidUrl(data.url)
      [] op = "email"   -> \/ "email_text" \notin DOMAIN data
                           \/ "sender_email" \notin DOMAIN data
                           \/ ~IsValidEmail(data.sender_email)

\* C5: a request whose input is missing or malformed is answered 400 and no
\* analyze_* function runs for it; a request with valid input reaches the analysis
C5_ValidationGate ==
    last.via = "view" =>
        IF MissingOrMalformed(last.op, last.input)
        THEN last.outcome = "rejected" /\ last.response[1].status = 400 /\ last.steps = <<>>
        ELSE last.steps # <<>>

\* the part of C5 the endpoints satisfy: what is answered 400 never reaches an
\* analysis, and a request with an absent or malformed field is answered 400
C5_RejectedNeverAnalysed ==
    last.via = "view" =>
        /\ MissingOrMalformed(last.op, last.input) => last.outcome = "rejected"
        /\ last.outcome = "rejected" <=> last.response[1].status = 400
        /\ last.outcome = "rejected" <=> last.steps = <<>>

\* C6: after a successful fetch, a failing domain analysis adds no evidence and
\* raises nothing: the analysis returns, and what it returns equals what the same
\* call returned when the domain analysis succeeded with an age of 90 days or more
C6_DomainFailureAbsorbed ==
    [][(last'.op = "link" /\ last'.env.fetch = "ok" /\ last'.env.tld = "fail") =>
          /\ last'.outcome = "returned"
          /\ "Newly Registered Domain" \notin Range(last'.returned[1].detected_patterns)
          /\ last'.steps = <<"https", "fetch", "domain", "content", "contact">>
          /\ (/\ last.op = "link"
              /\ last.via = last'.via
              /\ last.input = last'.input
              /\ last.env.html = last'.env.html
              /\ last.env.tld = "ok"
              /\ _get_domain_age_in_days(last.input.url) >= 90)
                => (last'.returned = last.returned /\ last'.response = last.response)]_vars

\* a link analysis returned although the domain analysis failed
C6_Witness ==
    /\ last.op = "link"
    /\ last.env.fetch = "ok"
    /\ last.env.tld = "fail"
    /\ last.outcome = "returned"
    /\ Result.risk_score = 45

\* the step observes the same call again: same operation, caller, input and
\* collaborator answers
SameCallAgain ==
    /\ last.op # "none"
    /\ last'.op = last.op
    /\ last'.via = last.via
    /\ last'.input = last.input
    /\ last'.env = last.env

\* C7: the same call with the same collaborator answers yields the same
\* AnalysisResult, the order of detected_patterns included
C7_Idempotent == [][SameCallAgain => last'.returned = last.returned]_vars

\* the keywords of the message catalog
MessageKeywords ==
    UNION {Range(SCAM_PATTERNS[i].keywords) : i \in 1..Len(SCAM_PATTERNS)}

\* the texts keywords are added to
BaseTexts == {"", "fee", "now", "whatsapp", "hr@gmail.com", "Call on Telegram", "work from home"}

\* whitespace around an added keyword: none, or a blank on each side
Separators == {"", " "}

\* the largest number of characters a keyword is put in after
MaxAt == 16

\* t with k put in after its first at characters, sep on both sides of k
Insert(t, k, at, sep) == SubSeq(t, 1, at) \o sep \o k \o sep \o SubSeq(t, at + 1, Len(t))

\* analyze_message called on the observed call's text with a keyword added
MessageCallWithKeyword(k, at, sep) ==
    /\ pc = "idle"
    /\ last.op = "message"
    /\ last.via = "call"
    /\ last.input.message_text \in BaseTexts
    /\ at <= Len(last.input.message_text)
    /\ last' = MessageCallOutcome(Insert(last.input.message_text, k, at, sep))
    /\ UNCHANGED <<catalogs, frames, calls, hash_order, pc, request, via, url, acc, text, env, steps>>

\* analyze_message applied to a text, then to that text with a keyword added
NextAddKeyword ==
    \/ \E t \in BaseTexts : MessageCall(t)
    \/ \E k \in MessageKeywords, at \in 0..MaxAt, sep \in Separators : MessageCallWithKeyword(k, at, sep)
    \/ Forget

\* analyze_message reads no set order: one process is enough
InitAddKeyword == Init /\ hash_order = [i \in 1..Len(EMAIL_SCAM_PATTERNS) |-> EMAIL_SCAM_PATTERNS[i].name]

SpecAddKeyword == InitAddKeyword /\ [][NextAddKeyword]_vars

\* the step calls analyze_message on the observed text with keyword k added at
\* one of the positions ats, with one of the separators seps
AddsKeyword(ats, seps) ==
    /\ last.op = "message"
    /\ last'.op = "message"
    /\ last.outcome = "returned"
    /\ last'.outcome = "returned"
    /\ \E k \in MessageKeywords, at \in ats, sep \in seps :
          /\ at <= Len(last.input.message_text)
          /\ last'.input.message_text = Insert(last.input.message_text, k, at, sep)

\* C8 as stated: a keyword added anywhere, with or without whitespace around
\* it, never lowers the risk_score
C8_MonotoneAnywhere ==
    [][AddsKeyword(0..MaxAt, Separators) => last'.returned[1].risk_score >= last.returned[1].risk_score]_vars

\* C8 amended: a keyword added in front of the text or after it, with
\* whitespace between the two, never lowers the risk_score
C8_MonotoneAtEnds ==
    [][AddsKeyword({0, Len(last.input.message_text)}, {" "})
          => last'.returned[1].risk_score >= last.returned[1].risk_score]_vars

\* a keyword was added after "whatsapp" with a blank between, and the score went up
C8_Witness ==
    /\ HasResult
    /\ last.op = "message"
    /\ last.input.message_text = "whatsapp now "
    /\ Result.risk_score = 55

\* the text the observed analyze_message call was given
GivenText == IF last.via = "view" THEN Strip(last.input.message_text) ELSE last.input.message_text

\* C9: "Pay KES 1000 now via WhatsApp" matches Payment Request, Urgency
\* Manipulation and Off-Platform Communication, in that order; 105 is capped to
\* 100, HIGH; and any message whose matched weights exceed 100 scores 100, HIGH
C9_ScenarioA ==
    (HasResult /\ last.op = "message") =>
        /\ GivenText = "Pay KES 1000 now via WhatsApp" =>
              /\ Result.detected_patterns =
                    <<"Payment Request", "Urgency Manipulation", "Off-Platform Communication">>
              /\ MatchedWeight = 105
              /\ Result.risk_score = 100
              /\ Result.risk_level = "HIGH"
        /\ MatchedWeight > 100 => (Result.risk_score = 100 /\ Result.risk_level = "HIGH")

\* the endpoint has answered scenario A
C9_Witness ==
    /\ HasResult
    /\ last.op = "message"
    /\ last.via = "view"
    /\ last.input.message_text = "Pay KES 1000 now via WhatsApp"
    /\ Result.risk_score = 100

ProfessionalBody ==
    "Congratulations on your application. Please schedule an interview at your convenience using the link below."

\* C10: the professional email from hr@techcorp.com (a corporate sender, a body
\* without payment or urgency keyword) scores 0, LOW, with no detected pattern
C10_ScenarioD ==
    (/\ HasResult
     /\ last.op = "email"
     /\ last.input.sender_email = "hr@techcorp.com"
     /\ last.input.email_text = ProfessionalBody) =>
        /\ Result.risk_score = 0
        /\ Result.risk_level = "LOW"
        /\ Result.detected_patterns = <<>>

\* the text analyze_link extracted from the page the observed call was answered with
PageText == _extract_text_from_html(last.env.html)

\* the text holds a keyword of the i-th rule of WEBSITE_SCAM_PATTERNS
HoldsWebsiteKeyword(t, i) ==
    \E j \in 1..Len(WEBSITE_SCAM_PATTERNS[i].keywords) :
        Contains(Lower(WEBSITE_SCAM_PATTERNS[i].keywords[j]), Lower(t))

\* the text holds one of the words contact, address, phone
HoldsContactWord(t) == WordSearch("contact", t) \/ WordSearch("address", t) \/ WordSearch("phone", t)

\* scenario B: an http:// URL, a reachable page without contact word, payment
\* keyword or promise keyword, and a domain age of 90 days or more
ScenarioB ==
    /\ last.op = "link"
    /\ last.env.fetch = "ok"
    /\ last.env.tld = "ok"
    /\ StartsWith(last.input.url, "http://")
    /\ _get_domain_age_in_days(last.input.url) >= 90
    /\ ~HoldsContactWord(PageText)
    /\ ~HoldsWebsiteKeyword(PageText, 3)
    /\ ~HoldsWebsiteKeyword(PageText, 5)

\* C11: in scenario B analyze_link returns exactly the evidence No HTTPS and
\* No Contact Info: risk_score 45, risk_level MEDIUM
C11_ScenarioB ==
    ScenarioB =>
        /\ HasResult
        /\ Result.detected_patterns = <<"No HTTPS", "No Contact Info">>
        /\ Result.risk_score = 45
        /\ Result.risk_level = "MEDIUM"

\* http://example.com answered with the Example Domain page
C11_Witness ==
    /\ ScenarioB
    /\ last.input.url = "http://example.com"
    /\ PageText = "Example Domain More information"
    /\ Result.risk_score = 45

\* C12: a fault raised during email or link analysis that is not a page-fetch
\* failure is answered 422, only a page-fetch failure is answered 503, and in
\* neither case is an AnalysisResult returned
C12_FaultStatus ==
    (last.via = "view" /\ last.outcome = "raised") =>
        /\ last.returned = <<>>
        /\ "risk_score" \notin DOMAIN last.response[1].data
        /\ last.response[1].status =
              (IF last.op = "link" /\ last.env.fetch = "fail"
               THEN HTTP_503_SERVICE_UNAVAILABLE
               ELSE HTTP_422_UNPROCESSABLE_ENTITY)

\* the part of C12 the endpoints satisfy: a fault of the email analysis is
\* answered 422, every fault of the link analysis 503, and no result is returned
C12_FaultStatusPerEndpoint ==
    (last.via = "view" /\ last.outcome = "raised") =>
        /\ last.returned = <<>>
        /\ "risk_score" \notin DOMAIN last.response[1].data
        /\ last.op = "email" => last.response[1].status = HTTP_422_UNPROCESSABLE_ENTITY
        /\ last.op = "link" => last.response[1].status = HTTP_503_SERVICE_UNAVAILABLE

\* the rule of a catalog that carries a name
RuleNamed(catalog, name) == catalog[CHOOSE i \in 1..Len(catalog) : catalog[i].name = name]

\* the names of order that are among names, in the order of order
InOrder(order, names) == SelectSeq(order, LAMBDA n : n \in Range(names))

\* the explanations of the named rules of a catalog, joined in the order of names
JoinedExplanations(catalog, names) ==
    Join([i \in 1..Len(names) |-> RuleNamed(catalog, names[i]).explanation])

\* the advice of the named rules of a catalog, joined in the order of names
JoinedAdvice(catalog, names) ==
    Join([i \in 1..Len(names) |-> RuleNamed(catalog, names[i]).advice])

\* the order of analyze_link's steps: HTTPS, domain age, content rules, contact information
LinkStepOrder ==
    <<"No HTTPS", "Newly Registered Domain", "Payment Instructions in Text",
      "Unrealistic Promises", "No Contact Info">>

\* C13: a successful analyze_link reports its evidence in the order No HTTPS,
\* Newly Registered Domain, the content rules, No Contact Info; explanation and
\* advice follow that order; the fetch and the text extraction add no evidence
C13_LinkStepOrder ==
    /\ (HasResult /\ last.op = "link") =>
          /\ Result.detected_patterns = InOrder(LinkStepOrder, Result.detected_patterns)
          /\ Result.detected_patterns # <<>> =>
                /\ Result.explanation = JoinedExplanations(WEBSITE_SCAM_PATTERNS, Result.detected_patterns)
                /\ Result.advice = JoinedAdvice(WEBSITE_SCAM_PATTERNS, Result.detected_patterns)
    /\ pc = "domain" => Range(acc.detected_patterns) \subseteq {"No HTTPS"}

\* a link analysis that found a content rule of each kind and no contact information
C13_Witness ==
    /\ HasResult
    /\ last.op = "link"
    /\ Result.detected_patterns =
          <<"No HTTPS", "Payment Instructions in Text", "Unrealistic Promises", "No Contact Info">>

\* the names of a catalog's rules, in the order of the list
CatalogNames(catalog) == [i \in 1..Len(catalog) |-> catalog[i].name]

\* the observed result reports each rule once, and its evidence follows order:
\* explanation and advice are joined in that order, and so is the list of names
\* where the analysis returns the list it appended to (analyze_email returns
\* list(set(...)) of it)
EvidenceFollows(order) ==
    LET names == InOrder(order, Result.detected_patterns)
    IN  /\ Cardinality(Range(Result.detected_patterns)) = Len(Result.detected_patterns)
        /\ last.op # "email" => Result.detected_patterns = names
        /\ names # <<>> =>
              /\ Result.explanation = JoinedExplanations(CatalogOf(last.op), names)
              /\ Result.advice = JoinedAdvice(CatalogOf(last.op), names)

\* C14 as stated: in every run of the three analyses the evidence follows the
\* order of the rules in the analysis's catalog list, no name appended twice
C14_CatalogOrder == HasResult => EvidenceFollows(CatalogNames(CatalogOf(last.op)))

\* C14 amended: the evidence follows the catalog order in analyze_message and
\* analyze_email, and the order of the steps in analyze_link, where No Contact
\* Info comes last, after Unrealistic Promises; no name is appended twice
C14_EvidenceOrder ==
    HasResult =>
        EvidenceFollows(IF last.op = "link" THEN LinkStepOrder ELSE CatalogNames(CatalogOf(last.op)))

\* an email analysis that found all four rules
C14_Witness ==
    /\ HasResult
    /\ last.op = "email"
    /\ Len(Result.detected_patterns) = 4
    /\ Result.explanation = JoinedExplanations(EMAIL_SCAM_PATTERNS, CatalogNames(EMAIL_SCAM_PATTERNS))

\* the number of places of s where sub occurs
Occurrences(sub, s) == Cardinality({i \in 1..Len(s) : OccursAt(sub, s, i)})

\* the body the observed analyze_email call was given
GivenBody == IF last.via = "view" THEN Strip(last.input.email_text) ELSE last.input.email_text

\* the informal tokens of the grammar check
InformalTokens == {"kindley", "ur", "pls"}

\* the number of informal tokens the body holds
TokensHeld(body) == Cardinality({t \in InformalTokens : Contains(t, Lower(body))})

\* C15: analyze_email reports Poor Grammar / Unusual Formatting exactly when the
\* body holds an informal token (case-insensitive substring), and then once:
\* weight 15 added once, explanation and advice once; the payment and urgency
\* rules contribute at most once too, however many keywords occur
C15_EmittedOnce ==
    (HasResult /\ last.op = "email") =>
        /\ "Poor Grammar / Unusual Formatting" \in Range(Result.detected_patterns)
              <=> TokensHeld(GivenBody) >= 1
        /\ Result.risk_score = CapScore(MatchedWeight)
        /\ \A i \in 2..4 :
              LET rule == EMAIL_SCAM_PATTERNS[i]
                  times == IF rule.name \in Range(Result.detected_patterns) THEN 1 ELSE 0
              IN  /\ Cardinality({k \in 1..Len(Result.detected_patterns) :
                                      Result.detected_patterns[k] = rule.name}) = times
                  /\ Occurrences(rule.explanation, Result.explanation) = times
                  /\ Occurrences(rule.advice, Result.advice) = times

\* a body holding two informal tokens, one in upper case, was analysed: 15, once
C15_Witness ==
    /\ HasResult
    /\ last.op = "email"
    /\ last.input.email_text = "Kindley send UR cv"
    /\ TokensHeld(GivenBody) = 2
    /\ Result.risk_score = 15

\* a keyword of the rule, lower-cased, is a substring of the lower-cased text
HoldsKeyword(rule, t) ==
    \E j \in 1..Len(rule.keywords) : Contains(Lower(rule.keywords[j]), Lower(t))

\* C16: analyze_message decides a rule that defines a regex by the
\* case-insensitive regex search alone, whatever keywords the text holds, and a
\* rule without a regex by the keyword test alone
C16_RegexOrKeywords ==
    (HasResult /\ last.op = "message") =>
        \A i \in 1..Len(SCAM_PATTERNS) :
            LET rule == SCAM_PATTERNS[i]
            IN  rule.name \in Range(Result.detected_patterns)
                    <=> IF rule.regex # None
                        THEN RegexSearch(rule.regex, GivenText)
                        ELSE HoldsKeyword(rule, GivenText)

\* a text holding the keywords "whatsapp" and "@gmail.com" that neither regex
\* matches was analysed, and neither rule is reported
C16_Witness ==
    /\ HasResult
    /\ last.op = "message"
    /\ GivenText = "join our whatsappgroup @gmail.com"
    /\ HoldsKeyword(SCAM_PATTERNS[3], GivenText)
    /\ HoldsKeyword(SCAM_PATTERNS[4], GivenText)
    /\ Result.detected_patterns = <<>>

\* the scheme of a URL, as URL schemes compare: without regard to case
SchemeOf(u) == Lower(BeforeFirst(u, "://"))

\* C17: for a valid URL accepted by the link endpoint, analyze_link collects
\* the No HTTPS evidence exactly when the URL's scheme is not https, whatever
\* the case the scheme is written in
C17_SchemeCheck ==
    (pc # "idle" /\ via = "view") =>
        ("No HTTPS" \in Range(acc.detected_patterns) <=> SchemeOf(url) # "https")

\* the part of C17 the code satisfies: No HTTPS is collected exactly when the
\* URL does not begin with the lower-case "https://", and this step raises nothing
C17_PrefixCheck ==
    pc # "idle" =>
        /\ "No HTTPS" \in Range(acc.detected_patterns) <=> ~StartsWith(url, "https://")
        /\ steps[1] = "https"

(***************************************************************************)
(* Calls running side by side in one process                               *)
(***************************************************************************)

\* the locals of all calls kept in one place, as module-level variables would be
SharedFrame(c) == 1

\* risk_score, detected_patterns, explanations, advices and text are locals:
\* every call of analyze_link has a frame of its own
FrameOf(c) == c

\* analyze_link as one function of its argument and of what the fetch and
\* tldextract.extract answer: the outcome, and the result if it returns
analyze_link(u, fetch_ok, html_content, tld_ok) ==
    LET acc1 == HttpsCheck(u, NoEvidence)
        got  == FetchStep(fetch_ok, html_content)
    IN  IF got.raised
        THEN [outcome |-> "raised", returned |-> <<>>]
        ELSE LET dom == DomainStep(u, acc1, tld_ok)
             IN  IF dom.raised
                 THEN [outcome |-> "raised", returned |-> <<>>]
                 ELSE [outcome |-> "returned", returned |-> <<ContentStep(got.text, dom.acc)>>]

\* the arguments and collaborator answers of the calls running side by side
ConcurrentUrls == {"http://example.com", "https://example.com"}

ConcurrentPages ==
    {<<[tag |-> "h1", text |-> "Example Domain"], [tag |-> "p", text |-> " More information "]>>,
     <<[tag |-> "p", text |-> "Pay fee. High salary!"], [tag |-> "style", text |-> "p { }"]>>}

ConcurrentMessages == {"Pay KES 1000 now via WhatsApp", "Software Engineer role at TechCorp"}

ConcurrentEmails ==
    {[email_text |-> "URGENT!!! Pay fee NOW pls", sender_email |-> "hr@gmail.com"],
     [email_text |-> "Thank you. We will get back to you.", sender_email |-> "hr@techcorp.com"]}

\* call c enters analyze_link(u): the locals are initialised, step 1 runs
ConcurrentLinkEnter(c, u) ==
    /\ calls[c].pc = "idle"
    /\ calls' = [calls EXCEPT ![c] = [NoCall EXCEPT !.pc = "fetch", !.op = "link", !.input = [url |-> u]]]
    /\ frames' = [frames EXCEPT ![FrameOf(c)] = [acc |-> HttpsCheck(u, NoEvidence), text |-> ""]]
    /\ UNCHANGED <<catalogs, hash_order, pc, request, via, url, acc, text, env, steps, last>>

\* 2. the fetch of call c answers
ConcurrentLinkFetch(c, fetch_ok, html_content) ==
    /\ calls[c].pc = "fetch"
    /\ LET got == FetchStep(fetch_ok, html_content)
           e   == [calls[c].env EXCEPT !.fetch = IF fetch_ok THEN "ok" ELSE "fail", !.html = html_content]
       IN  IF got.raised
           THEN /\ calls' = [calls EXCEPT ![c].pc = "done", ![c].env = e, ![c].outcome = "raised"]
                /\ UNCHANGED frames
           ELSE /\ calls' = [calls EXCEPT ![c].pc = "domain", ![c].env = e]
                /\ frames' = [frames EXCEPT ![FrameOf(c)].text = got.text]
    /\ UNCHANGED <<catalogs, hash_order, pc, request, via, url, acc, text, env, steps, last>>

\* 3. the domain analysis of call c
ConcurrentLinkDomain(c, tld_ok) ==
    /\ calls[c].pc = "domain"
    /\ LET got == DomainStep(calls[c].input.url, frames[FrameOf(c)].acc, tld_ok)
           e   == [calls[c].env EXCEPT !.tld = IF tld_ok THEN "ok" ELSE "fail"]
       IN  IF got.raised
           THEN /\ calls' = [calls EXCEPT ![c].pc = "done", ![c].env = e, ![c].outcome = "raised"]
                /\ UNCHANGED frames
           ELSE /\ calls' = [calls EXCEPT ![c].pc = "content", ![c].env = e]
                /\ frames' = [frames EXCEPT ![FrameOf(c)].acc = got.acc]
    /\ UNCHANGED <<catalogs, hash_order, pc, request, via, url, acc, text, env, steps, last>>

\* 4, 5 and the return of call c
ConcurrentLinkContent(c) ==
    /\ calls[c].pc = "content"
    /\ calls' = [calls EXCEPT ![c].pc = "done", ![c].outcome = "returned",
                              ![c].returned = <<ContentStep(frames[FrameOf(c)].text, frames[FrameOf(c)].acc)>>]
    /\ UNCHANGED <<catalogs, frames, hash_order, pc, request, via, url, acc, text, env, steps, last>>

\* call c is analyze_message(message_text): it awaits nothing
ConcurrentMessageCall(c, message_text) ==
    /\ calls[c].pc = "idle"
    /\ calls' = [calls EXCEPT ![c] = [NoCall EXCEPT !.pc = "done", !.op = "message",
                                                     !.input = [message_text |-> message_text],
                                                     !.outcome = "returned",
                                                     !.returned = <<analyze_message(message_text)>>]]
    /\ UNCHANGED <<catalogs, frames, hash_order, pc, request, via, url, acc, text, env, steps, last>>

\* call c is analyze_email(email_text, sender_email): it awaits nothing
ConcurrentEmailCall(c, data) ==
    /\ calls[c].pc = "idle"
    /\ calls' = [calls EXCEPT ![c] = [NoCall EXCEPT !.pc = "done", !.op = "email", !.input = data,
                                                     !.env = [NoEnv EXCEPT !.tld = "ok"],
                                                     !.outcome = "returned",
                                                     !.returned = <<analyze_email(data.email_text, data.sender_email, hash_order)>>]]
    /\ UNCHANGED <<catalogs, frames, hash_order, pc, request, via, url, acc, text, env, steps, last>>

\* the steps of the calls, interleaved in any order
NextConcurrent ==
    \/ \E c \in Calls, u \in ConcurrentUrls : ConcurrentLinkEnter(c, u)
    \/ \E c \in Calls, html_content \in ConcurrentPages : ConcurrentLinkFetch(c, TRUE, html_content)
    \/ \E c \in Calls : ConcurrentLinkFetch(c, FALSE, <<>>)
    \/ \E c \in Calls, tld_ok \in BOOLEAN : ConcurrentLinkDomain(c, tld_ok)
    \/ \E c \in Calls : ConcurrentLinkContent(c)
    \/ \E c \in Calls, t \in ConcurrentMessages : ConcurrentMessageCall(c, t)
    \/ \E c \in Calls, data \in ConcurrentEmails : ConcurrentEmailCall(c, data)

\* one process: one set iteration order
InitConcurrent == Init /\ hash_order = [i \in 1..Len(EMAIL_SCAM_PATTERNS) |-> EMAIL_SCAM_PATTERNS[i].name]

SpecConcurrent == InitConcurrent /\ [][NextConcurrent]_vars

\* what call c returns when it runs alone, given what its collaborators answered
Alone(c) ==
    CASE calls[c].op = "message" ->
            [outcome |-> "returned", returned |-> <<analyze_message(calls[c].input.message_text)>>]
      [] calls[c].op = "email" ->
            [outcome |-> "returned",
             returned |-> <<analyze_email(calls[c].input.email_text, calls[c].input.sender_email, hash_order)>>]
      [] calls[c].op = "link" ->
            analyze_link(calls[c].input.url, calls[c].env.fetch = "ok", calls[c].env.html,
                         calls[c].env.tld = "ok")

\* C18: no analysis changes the rule catalogs, and whatever the interleaving of
\* the calls, each finished call has the outcome and the result it has when it
\* runs alone, also when another call has failed
C18_Isolation ==
    /\ catalogs = ImportedCatalogs
    /\ \A c \in Calls :
          calls[c].pc = "done" =>
              /\ calls[c].outcome = Alone(c).outcome
              /\ calls[c].returned = Alone(c).returned

\* two link analyses ran side by side: the fetch of the first failed, the
\* second returned the result of its own URL and page
C18_Witness ==
    /\ calls[1].pc = "done"
    /\ calls[1].op = "link"
    /\ calls[1].outcome = "raised"
    /\ calls[2].pc = "done"
    /\ calls[2].op = "link"
    /\ calls[2].input.url = "https://example.com"
    /\ calls[2].outcome = "returned"
    /\ calls[2].returned[1].risk_score = 100
    /\ frames[1].acc.risk_score = 20
====
